---- MODULE Spec2Model ----
(***************************************************************************)
(* Model of generate_db_from_dataset/db_generator.py: the column-name      *)
(* sanitizer, the index advisor, the single-file ingestion pipeline and    *)
(* the batch config runner.                                                *)
(*                                                                         *)
(* A Python str is modelled as a sequence of one-character strings, so     *)
(* that strip/lower/re.sub/concatenation are computed character by         *)
(* character ("order_id" is <<"o","r","d","e","r","_","i","d">>).          *)
(***************************************************************************)
EXTENDS Integers, Sequences, FiniteSets, TLC

VARIABLES
    \* --- sanitizer (create_db_from_csv lines 142-145) ---
    raw,            \* the ordered list of raw headers
    cleaned,        \* [_clean_column_name(c) for c in df.columns]
    final,          \* the list after the next transformation step
    stage,          \* position in the sanitizing pipeline
    \* --- index advisor (_suggest_index_columns) ---
    df,             \* the table: nrows and, per column, name and cardinality
    max_unique_ratio,   \* threshold argument, a fraction <<num, den>>
    max_indexes,    \* cap argument
    suggested,      \* the returned list of column names
    advStage,       \* "build" before the call, "returned" after it
    \* --- ingestion pipeline and batch runner ---
    dbs,            \* the SQLite files: path -> tables and indexes
    last,           \* what the latest create_db_from_csv call did
    njobs,          \* number of create_db_from_csv calls made so far
    pc,             \* "idle", "single", "batch", "done" or "raised"
    databases,      \* config['databases'] of the running batch
    idx,            \* number of entries the batch loop has gone through
    attempts,       \* positions of the entries attempted, in order
    outcomes,       \* outcome of each attempted entry, in order
    success_count,
    error_count

sanVars == <<raw, cleaned, final, stage>>
advVars == <<df, max_unique_ratio, max_indexes, suggested, advStage>>
storeVars == <<dbs, last, njobs>>
batchVars == <<pc, databases, idx, attempts, outcomes, success_count, error_count>>
ingVars == <<storeVars, batchVars>>
vars == <<sanVars, advVars, ingVars>>

----------------------------------------------------------------------------
(* Bounds *)

MaxLen == 4         \* longest raw header of the exhaustive alphabet strings
MaxCols == 3        \* most headers in one header list
MaxAdvCols == 3     \* most columns of a table given to the advisor
MaxJobs == 3        \* most direct create_db_from_csv calls in a row
MaxEncodings == 2   \* longest explicit encodings list
MaxEntries == 2     \* most entries of a batch config
MaxIdx == 1         \* largest max_indexes argument tried besides the default

----------------------------------------------------------------------------
(* Characters *)

UpperChars == <<"A","B","C","D","E","F","G","H","I","J","K","L","M",
                "N","O","P","Q","R","S","T","U","V","W","X","Y","Z">>
LowerChars == <<"a","b","c","d","e","f","g","h","i","j","k","l","m",
                "n","o","p","q","r","s","t","u","v","w","x","y","z">>
DigitChars == <<"0","1","2","3","4","5","6","7","8","9">>

Range(f) == {f[i] : i \in DOMAIN f}

IsInjective(s) == \A i, j \in 1..Len(s) : i # j => s[i] # s[j]

Whitespace == {" ", "\t"}

\* str.lower() on one character
LowerChar(ch) ==
    IF \E i \in DOMAIN UpperChars : UpperChars[i] = ch
    THEN LowerChars[CHOOSE i \in DOMAIN UpperChars : UpperChars[i] = ch]
    ELSE ch

IsDigit(ch) == ch \in Range(DigitChars)

\* the character class [0-9a-z]
IsLowerAlnum(ch) == ch \in Range(DigitChars) \cup Range(LowerChars)

\* the character class [0-9a-zA-Z]
IsAlnum(ch) == IsLowerAlnum(ch) \/ ch \in Range(UpperChars)

----------------------------------------------------------------------------
(* String helpers *)

RECURSIVE LStrip(_, _)
LStrip(s, chars) ==
    IF s # <<>> /\ Head(s) \in chars THEN LStrip(Tail(s), chars) ELSE s

RECURSIVE RStrip(_, _)
RStrip(s, chars) ==
    IF s # <<>> /\ s[Len(s)] \in chars
    THEN RStrip(SubSeq(s, 1, Len(s) - 1), chars)
    ELSE s

\* str.strip(chars)
Strip(s, chars) == RStrip(LStrip(s, chars), chars)

\* str.lower()
Lower(s) == [i \in 1..Len(s) |-> LowerChar(s[i])]

\* re.sub(r'[^0-9a-z]+', '_', s): every maximal run of characters outside
\* [0-9a-z] becomes one underscore
RECURSIVE DropNonLowerAlnum(_)
DropNonLowerAlnum(s) ==
    IF s # <<>> /\ ~IsLowerAlnum(Head(s)) THEN DropNonLowerAlnum(Tail(s)) ELSE s

RECURSIVE SubNonLowerAlnum(_)
SubNonLowerAlnum(s) ==
    IF s = <<>> THEN <<>>
    ELSE IF IsLowerAlnum(Head(s))
         THEN <<Head(s)>> \o SubNonLowerAlnum(Tail(s))
         ELSE <<"_">> \o SubNonLowerAlnum(DropNonLowerAlnum(Tail(s)))

\* str(n) for a non-negative integer, as used by the f-string of line 42
RECURSIVE DecStr(_)
DecStr(n) ==
    IF n < 10 THEN <<DigitChars[n + 1]>>
    ELSE DecStr(n \div 10) \o <<DigitChars[(n % 10) + 1]>>

----------------------------------------------------------------------------
(* _clean_column_name, lines 10-32 *)

\* a variant that strips the underscores before the substitution
_clean_column_name_StripFirst(col) ==
    LET c1 == Lower(Strip(col, Whitespace))
        c2 == SubNonLowerAlnum(Strip(c1, {"_"}))
        c3 == IF c2 # <<>> /\ IsDigit(Head(c2)) THEN <<"c", "_">> \o c2 ELSE c2
    IN  IF c3 = <<>> THEN <<"c", "o", "l">> ELSE c3

\* a variant that leaves a leading digit alone
_clean_column_name_NoPrefix(col) ==
    LET c1 == Lower(Strip(col, Whitespace))
        c2 == Strip(SubNonLowerAlnum(c1), {"_"})
    IN  IF c2 = <<>> THEN <<"c", "o", "l">> ELSE c2

_clean_column_name(col) ==
    LET c1 == Lower(Strip(col, Whitespace))                 \* line 23
        c2 == SubNonLowerAlnum(c1)                          \* line 25
        c3 == Strip(c2, {"_"})                              \* line 27
        c4 == IF c3 # <<>> /\ IsDigit(Head(c3))             \* lines 29-30
              THEN <<"c", "_">> \o c3 ELSE c3
    IN  IF c4 = <<>> THEN <<"c", "o", "l">> ELSE c4         \* line 32

----------------------------------------------------------------------------
(* _make_unique_columns, lines 34-46 *)

\* the loop of lines 38-45: i is the position in cols, seen the dict
RECURSIVE MakeUniqueLoop(_, _, _, _)
MakeUniqueLoop(cols, i, seen, new_cols) ==
    IF i > Len(cols) THEN new_cols
    ELSE LET base == cols[i] IN
         IF base \in DOMAIN seen
         THEN LET n == seen[base] + 1 IN
              MakeUniqueLoop(cols, i + 1, [seen EXCEPT ![base] = n],
                             Append(new_cols, base \o <<"_">> \o DecStr(n)))
         ELSE MakeUniqueLoop(cols, i + 1, (base :> 0) @@ seen,
                             Append(new_cols, base))

\* a variant whose counter starts at 1, so the first duplicate gets "_2"
RECURSIVE MakeUniqueLoop_FromOne(_, _, _, _)
MakeUniqueLoop_FromOne(cols, i, seen, new_cols) ==
    IF i > Len(cols) THEN new_cols
    ELSE LET base == cols[i] IN
         IF base \in DOMAIN seen
         THEN LET n == seen[base] + 1 IN
              MakeUniqueLoop_FromOne(cols, i + 1, [seen EXCEPT ![base] = n],
                             Append(new_cols, base \o <<"_">> \o DecStr(n)))
         ELSE MakeUniqueLoop_FromOne(cols, i + 1, (base :> 1) @@ seen,
                             Append(new_cols, base))

_make_unique_columns_FromOne(cols) == MakeUniqueLoop_FromOne(cols, 1, <<>>, <<>>)

_make_unique_columns(cols) == MakeUniqueLoop(cols, 1, <<>>, <<>>)

----------------------------------------------------------------------------
(* Inputs of the sanitizer *)

\* characters of the exhaustive raw headers: a lowercase and an uppercase
\* letter, a digit, the underscore, a blank and a punctuation character
Alphabet == {"a", "B", "1", "_", " ", "-"}

SeqsUpTo(S, n) == UNION {[1..k -> S] : k \in 0..n}

\* raw headers that header lists are built from
HeaderPool ==
    { <<"O","r","d","e","r"," ","I","D">>,
      <<"2","0","2","0">>,
      <<"a">>,
      <<"A">>,
      <<"a","_","1">>,
      <<"a","-","2">>,
      <<>>,
      <<" ","-"," ">> }

SanIdle ==
    /\ raw = <<>>
    /\ cleaned = <<>>
    /\ final = <<>>
    /\ stage = "idle"

AdvIdle ==
    /\ df = [nrows |-> 0, columns |-> <<>>]
    /\ max_unique_ratio = <<0, 1>>
    /\ max_indexes = 0
    /\ suggested = <<>>
    /\ advStage = "idle"

IngIdle ==
    /\ dbs = <<>>
    /\ last = <<>>
    /\ njobs = 0
    /\ pc = "off"
    /\ databases = <<>>
    /\ idx = 0
    /\ attempts = <<>>
    /\ outcomes = <<>>
    /\ success_count = 0
    /\ error_count = 0

SanInit ==
    /\ AdvIdle
    /\ IngIdle
    /\ raw \in {<<h>> : h \in SeqsUpTo(Alphabet, MaxLen)}
               \cup SeqsUpTo(HeaderPool, MaxCols)
    /\ cleaned = <<>>
    /\ final = <<>>
    /\ stage = "read"

\* line 143
CleanColumns ==
    /\ stage = "read"
    /\ cleaned' = [i \in 1..Len(raw) |-> _clean_column_name(raw[i])]
    /\ final' = cleaned'
    /\ stage' = "cleaned"
    /\ UNCHANGED <<raw, advVars, ingVars>>

\* lines 144-145
MakeUnique ==
    /\ stage = "cleaned"
    /\ final' = _make_unique_columns(cleaned)
    /\ stage' = "unique"
    /\ UNCHANGED <<raw, cleaned, advVars, ingVars>>

\* the sanitizer applied to its own output
Reclean ==
    /\ stage = "cleaned"
    /\ final' = [i \in 1..Len(cleaned) |-> _clean_column_name(cleaned[i])]
    /\ stage' = "recleaned"
    /\ UNCHANGED <<raw, cleaned, advVars, ingVars>>

SanNext == CleanColumns \/ MakeUnique \/ Reclean

SpecSanitize == SanInit /\ [][SanNext]_vars

----------------------------------------------------------------------------
(* _suggest_index_columns, lines 48-84 *)

\* Ratios and thresholds are fractions <<num, den>> with den > 0; the
\* comparisons of the code are made exactly, by cross-multiplication.
FracLess(a, b) == a[1] * b[2] < b[1] * a[2]
FracTwice(a) == <<2 * a[1], a[2]>>

Max(a, b) == IF a >= b THEN a ELSE b
Min(a, b) == IF a <= b THEN a ELSE b

\* Python's "sub in s" on strings
Contains(s, sub) ==
    \E i \in 1..(Len(s) - Len(sub) + 1) : SubSeq(s, i, i + Len(sub) - 1) = sub

\* the keyword tuples of lines 68 and 70
DateKeywords ==
    { <<"d","a","t","e">>,
      <<"t","i","m","e","s","t","a","m","p">>,
      <<"t","i","m","e">> }
RegionKeywords ==
    { <<"r","e","g","i","o","n">>,
      <<"s","t","a","t","e">>,
      <<"c","i","t","y">>,
      <<"c","a","t","e","g","o","r","y">>,
      <<"s","e","g","m","e","n","t">> }

\* default arguments, line 48
DefaultMaxUniqueRatio == <<5, 100>>
DefaultMaxIndexes == 5

\* lines 58-62: nunique / max(1, len(ser)), or 1.0 when nunique raises
ColumnRatio(col, nrows) ==
    IF col.hashable THEN <<col.nunique, Max(1, nrows)>> ELSE <<1, 1>>

\* a variant that scores a low cardinality +1 and a medium one +2
ColumnScore_SwappedCardinality(name, ratio, threshold) ==
    LET lname == Lower(name) IN
      (IF Contains(lname, <<"i","d">>) /\ Len(lname) <= 10 THEN 4 ELSE 0)
    + (IF \E k \in DateKeywords : Contains(lname, k) THEN 3 ELSE 0)
    + (IF \E k \in RegionKeywords : Contains(lname, k) THEN 2 ELSE 0)
    + (IF FracLess(ratio, threshold) THEN 1
       ELSE IF FracLess(ratio, FracTwice(threshold)) THEN 2 ELSE 0)

\* lines 64-76
ColumnScore(name, ratio, threshold) ==
    LET lname == Lower(name) IN
      (IF Contains(lname, <<"i","d">>) /\ Len(lname) <= 10 THEN 4 ELSE 0)
    + (IF \E k \in DateKeywords : Contains(lname, k) THEN 3 ELSE 0)
    + (IF \E k \in RegionKeywords : Contains(lname, k) THEN 2 ELSE 0)
    + (IF FracLess(ratio, threshold) THEN 2
       ELSE IF FracLess(ratio, FracTwice(threshold)) THEN 1 ELSE 0)

\* the loop of lines 55-79 from column i on
RECURSIVE Candidates(_, _, _)
Candidates(table, threshold, i) ==
    IF i > Len(table.columns) THEN <<>>
    ELSE LET col == table.columns[i]
             ratio == ColumnRatio(col, table.nrows)
             score == ColumnScore(col.name, ratio, threshold)
         IN  (IF score > 0
              THEN <<[score |-> score, ratio |-> ratio, col |-> col.name]>>
              ELSE <<>>)
             \o Candidates(table, threshold, i + 1)

\* a variant of the sort key with the ratio descending
KeyLess_RatioDescending(x, y) ==
    \/ x.score > y.score
    \/ x.score = y.score /\ FracLess(y.ratio, x.ratio)

\* the sort key of line 82: (-score, ratio) compared as tuples
KeyLess(x, y) ==
    \/ -x.score < -y.score
    \/ -x.score = -y.score /\ FracLess(x.ratio, y.ratio)

\* list.sort is stable: x goes after every element whose key is not greater
RECURSIVE InsertSorted(_, _)
InsertSorted(sorted, x) ==
    IF sorted = <<>> THEN <<x>>
    ELSE IF KeyLess(x, Head(sorted)) THEN <<x>> \o sorted
    ELSE <<Head(sorted)>> \o InsertSorted(Tail(sorted), x)

RECURSIVE SortCandidates(_)
SortCandidates(c) ==
    IF c = <<>> THEN <<>>
    ELSE InsertSorted(SortCandidates(SubSeq(c, 1, Len(c) - 1)), c[Len(c)])

\* a variant that keeps one element too many
SliceTo_OneMore(s, n) ==
    IF n >= 0 THEN SubSeq(s, 1, Min(n + 1, Len(s)))
    ELSE SubSeq(s, 1, Max(0, Len(s) + n))

\* the slice s[:n] of Python, n possibly negative
SliceTo(s, n) ==
    IF n >= 0 THEN SubSeq(s, 1, Min(n, Len(s)))
    ELSE SubSeq(s, 1, Max(0, Len(s) + n))

_suggest_index_columns(table, threshold, cap) ==
    LET candidates == SortCandidates(Candidates(table, threshold, 1))
        top == SliceTo(candidates, cap)
    IN  [i \in 1..Len(top) |-> top[i].col]

----------------------------------------------------------------------------
(* Inputs of the advisor *)

AdvNames ==
    { <<"r","e","g","i","o","n">>,
      <<"v","a","l","u","e">>,
      <<"T","i","m","e","_","I","D">>,
      <<"i","d","e","n","t","i","f","i","e","r","s">> }

RowCounts == {0, 100}
CardPool == {0, 1, 5, 10, 90}
Thresholds == {DefaultMaxUniqueRatio, <<1, 10>>}

\* what one column can hold in a table of n rows: a number of distinct
\* values, or values whose nunique raises
CardOptions(n) ==
    {[nunique |-> k, hashable |-> TRUE] : k \in {c \in CardPool : c <= n /\ (c = 0 => n = 0)}}
    \cup {[nunique |-> 0, hashable |-> FALSE]}

AdvInit ==
    /\ SanIdle
    /\ IngIdle
    /\ df \in {[nrows |-> n, columns |-> <<>>] : n \in RowCounts}
    /\ max_unique_ratio = DefaultMaxUniqueRatio
    /\ max_indexes = DefaultMaxIndexes
    /\ suggested = <<>>
    /\ advStage = "build"

\* the caller's DataFrame gets one more column; column names are pairwise
\* distinct (df[col] of line 56 is a Series)
AddColumn ==
    /\ advStage = "build"
    /\ Len(df.columns) < MaxAdvCols
    /\ \E name \in AdvNames, c \in CardOptions(df.nrows) :
          /\ \A i \in 1..Len(df.columns) : df.columns[i].name # name
          /\ df' = [df EXCEPT !.columns =
                       Append(@, [name |-> name, nunique |-> c.nunique,
                                  hashable |-> c.hashable])]
    /\ UNCHANGED <<max_unique_ratio, max_indexes, suggested, advStage, sanVars, ingVars>>

\* one call _suggest_index_columns(df, max_unique_ratio, max_indexes)
SuggestIndexColumns ==
    /\ advStage = "build"
    /\ \E threshold \in Thresholds, cap \in (-1..MaxIdx) \cup {DefaultMaxIndexes} :
          /\ max_unique_ratio' = threshold
          /\ max_indexes' = cap
          /\ suggested' = _suggest_index_columns(df, threshold, cap)
    /\ advStage' = "returned"
    /\ UNCHANGED <<df, sanVars, ingVars>>

AdvNext == AddColumn \/ SuggestIndexColumns

SpecAdvisor == AdvInit /\ [][AdvNext]_vars

----------------------------------------------------------------------------
(* create_db_from_csv, lines 86-195 *)

\* Optional[T]: None is <<>>, a value x is <<x>>
None == <<>>
Some(x) == <<x>>

\* re.sub(r'[^0-9a-zA-Z]+', '_', s), line 120
RECURSIVE DropNonAlnum(_)
DropNonAlnum(s) ==
    IF s # <<>> /\ ~IsAlnum(Head(s)) THEN DropNonAlnum(Tail(s)) ELSE s

RECURSIVE SubNonAlnum(_)
SubNonAlnum(s) ==
    IF s = <<>> THEN <<>>
    ELSE IF IsAlnum(Head(s))
         THEN <<Head(s)>> \o SubNonAlnum(Tail(s))
         ELSE <<"_">> \o SubNonAlnum(DropNonAlnum(Tail(s)))

\* lines 118-122: the table name derived from the file name
DefaultTableName(stem) ==
    LET t == Strip(Lower(SubNonAlnum(stem)), {"_"})
    IN  IF t = <<>> THEN <<"t","a","b","l","e","_","d","a","t","a">> ELSE t

\* line 106
DefaultEncodings == <<"utf-8", "latin1", "iso-8859-1", "cp1252">>

\* The files on disk.  exists: os.path.exists; stem and beside: Path(csv).stem
\* and Path(csv).with_suffix('.db'); decodes: the encodings pd.read_csv
\* succeeds with; permissive: whether pd.read_csv(engine='python') succeeds;
\* headers: df.columns as read; nunique: distinct values per column; rows:
\* the rows, opaque (lines 147-155 may change cell types, never the rows and
\* never fatally).  The directory of every database path exists.
Files ==
    [ p \in {"a_b.csv", "a.csv", "Raw-1.csv", "bad.csv", "dup.csv", "missing.csv"} |->
      CASE p = "a_b.csv" ->
             [exists |-> TRUE, stem |-> <<"a","_","b">>, beside |-> "a_b.db",
              decodes |-> Range(DefaultEncodings), permissive |-> TRUE,
              headers |-> << <<"c">>, <<"I","D">> >>, nunique |-> <<1, 2>>,
              rows |-> <<"r1", "r2">>]
        [] p = "a.csv" ->
             [exists |-> TRUE, stem |-> <<"a">>, beside |-> "a.db",
              decodes |-> {"latin1", "iso-8859-1", "cp1252"}, permissive |-> TRUE,
              headers |-> << <<"b"," ","c">>, <<"R","e","g","i","o","n">> >>,
              nunique |-> <<1, 1>>,
              rows |-> <<"r3">>]
        [] p = "Raw-1.csv" ->
             [exists |-> TRUE, stem |-> <<"R","a","w","-","1">>, beside |-> "Raw-1.db",
              decodes |-> {}, permissive |-> TRUE,
              headers |-> << <<"2","0","2","0">> >>, nunique |-> <<1>>,
              rows |-> <<"r4">>]
        [] p = "bad.csv" ->
             [exists |-> TRUE, stem |-> <<"b","a","d">>, beside |-> "bad.db",
              decodes |-> {}, permissive |-> FALSE,
              headers |-> <<>>, nunique |-> <<>>, rows |-> <<>>]
        [] p = "dup.csv" ->
             [exists |-> TRUE, stem |-> <<"d","u","p">>, beside |-> "dup.db",
              decodes |-> Range(DefaultEncodings), permissive |-> TRUE,
              headers |-> << <<"a">>, <<"A">>, <<"a","_","1">> >>,
              nunique |-> <<1, 1, 1>>,
              rows |-> <<"r5">>]
        [] OTHER ->
             [exists |-> FALSE, stem |-> <<"m","i","s","s","i","n","g">>,
              beside |-> "missing.db",
              decodes |-> {}, permissive |-> FALSE,
              headers |-> <<>>, nunique |-> <<>>, rows |-> <<>>] ]

CsvPaths == DOMAIN Files
DbPaths == {"main.db"} \cup {Files[p].beside : p \in CsvPaths}

\* a database file: tables [name, columns, rows] and
\* indexes [name, table, column]
EmptyDb == [tables |-> {}, indexes |-> {}]

HasTable(db, t) == \E x \in db.tables : x.name = t
TableOf(db, t) == CHOOSE x \in db.tables : x.name = t
HasIndex(db, n) == \E x \in db.indexes : x.name = n

\* DROP TABLE: the table goes, and its indexes with it
DropTable(db, t) ==
    [tables |-> {x \in db.tables : x.name # t},
     indexes |-> {x \in db.indexes : x.table # t}]

\* a variant of the read loop that keeps trying after a success
RECURSIVE TryEncodings_NoBreak(_, _, _)
TryEncodings_NoBreak(file, encodings, i) ==
    IF i > Len(encodings) THEN [reads |-> <<>>, ok |-> FALSE]
    ELSE LET rest == TryEncodings_NoBreak(file, encodings, i + 1)
         IN  [reads |-> <<encodings[i]>> \o rest.reads,
              ok |-> encodings[i] \in file.decodes \/ rest.ok]

\* lines 127-134: the encodings read, in order, and whether one succeeded
RECURSIVE TryEncodings(_, _, _)
TryEncodings(file, encodings, i) ==
    IF i > Len(encodings) THEN [reads |-> <<>>, ok |-> FALSE]
    ELSE IF encodings[i] \in file.decodes
         THEN [reads |-> <<encodings[i]>>, ok |-> TRUE]
         ELSE LET rest == TryEncodings(file, encodings, i + 1)
              IN  [reads |-> <<encodings[i]>> \o rest.reads, ok |-> rest.ok]

\* lines 124-140: the read with its fallback
ReadCsv(file, encodings) ==
    LET t == TryEncodings(file, encodings, 1) IN
    IF t.ok THEN [reads |-> t.reads, permissive |-> FALSE, ok |-> TRUE]
    ELSE [reads |-> t.reads, permissive |-> TRUE, ok |-> file.permissive]

\* a variant of to_sql whose 'replace' keeps the rows already there
ToSql_ReplaceKeepsRows(db, table_name, columns, rows, if_exists) ==
    LET exists == HasTable(db, table_name)
        fresh == [name |-> table_name, columns |-> columns, rows |-> rows]
        failed == [ok |-> FALSE, db |-> db]
    IN  IF ~IsInjective(columns) THEN {failed}
        ELSE IF ~exists
        THEN {[ok |-> TRUE, db |-> [db EXCEPT !.tables = @ \cup {fresh}]]}
        ELSE IF if_exists = "fail" THEN {failed}
        ELSE LET old == TableOf(db, table_name) IN
             IF Range(columns) \subseteq Range(old.columns)
             THEN {[ok |-> TRUE,
                    db |-> [db EXCEPT !.tables =
                               (@ \ {old}) \cup {[old EXCEPT !.rows = @ \o rows]}]]}
             ELSE {failed}

\* line 160, df.to_sql(table_name, conn, if_exists=if_exists, index=False):
\* the possible results.  A frame with two equal column names is refused by
\* CREATE TABLE; under 'replace' the old table may already have been dropped.
ToSql(db, table_name, columns, rows, if_exists) ==
    LET exists == HasTable(db, table_name)
        fresh == [name |-> table_name, columns |-> columns, rows |-> rows]
        failed == [ok |-> FALSE, db |-> db]
    IN  IF ~exists
        THEN IF IsInjective(columns)
             THEN {[ok |-> TRUE, db |-> [db EXCEPT !.tables = @ \cup {fresh}]]}
             ELSE {failed}
        ELSE CASE if_exists = "fail" -> {failed}
               [] if_exists = "replace" ->
                    IF IsInjective(columns)
                    THEN {[ok |-> TRUE,
                           db |-> [DropTable(db, table_name)
                                       EXCEPT !.tables = @ \cup {fresh}]]}
                    ELSE {failed, [ok |-> FALSE, db |-> DropTable(db, table_name)]}
               [] OTHER ->      \* 'append'
                    LET old == TableOf(db, table_name) IN
                    IF IsInjective(columns)
                       /\ Range(columns) \subseteq Range(old.columns)
                    THEN {[ok |-> TRUE,
                           db |-> [db EXCEPT !.tables =
                                      (@ \ {old}) \cup {[old EXCEPT !.rows = @ \o rows]}]]}
                    ELSE {failed}

\* line 171
IndexName(table_name, col) ==
    <<"i","d","x","_">> \o table_name \o <<"_">> \o col

\* lines 167-177: CREATE INDEX IF NOT EXISTS for the columns from i on; a
\* name already taken by an index makes the statement a no-op
RECURSIVE CreateIndexes(_, _, _, _, _)
CreateIndexes(db, table_name, columns, index_columns, i) ==
    IF i > Len(index_columns) THEN db
    ELSE LET col == index_columns[i]
             idx_name == IndexName(table_name, col)
             db1 == IF col \in Range(columns) /\ ~HasIndex(db, idx_name)
                    THEN [db EXCEPT !.indexes = @ \cup
                             {[name |-> idx_name, table |-> table_name,
                               column |-> col]}]
                    ELSE db
         IN  CreateIndexes(db1, table_name, columns, index_columns, i + 1)

\* the DataFrame handed to the advisor at line 163
FrameOf(file, columns) ==
    [nrows |-> Len(file.rows),
     columns |-> [i \in 1..Len(columns) |->
                     [name |-> columns[i], nunique |-> file.nunique[i],
                      hashable |-> TRUE]]]

NoCall ==
    [csv_path |-> "", outcome |-> "none", encodings |-> <<>>, reads |-> <<>>,
     permissive |-> FALSE, connected |-> FALSE, db_path |-> "",
     table_name |-> <<>>, existed |-> FALSE, if_exists |-> "",
     columns |-> <<>>, index_columns |-> <<>>]

\* The whole call: the set of possible results [dbs, call], call recording
\* what was done.  job = [csv_path, db_path, table_name, index_columns,
\* encodings, if_exists], the first four Optional.
create_db_from_csv(store, job) ==
    LET file == Files[job.csv_path]
        encodings == IF job.encodings = None THEN DefaultEncodings
                     ELSE job.encodings[1]                          \* 105-106
        base == [NoCall EXCEPT !.csv_path = job.csv_path,
                               !.encodings = encodings,
                               !.if_exists = job.if_exists]
    IN
    IF ~file.exists                                                 \* 109-110
    THEN {[dbs |-> store, call |-> [base EXCEPT !.outcome = "FileNotFoundError"]]}
    ELSE
    LET db_path == IF job.db_path = None THEN file.beside
                   ELSE job.db_path[1]                              \* 113-115
        table_name == IF job.table_name = None
                      THEN DefaultTableName(file.stem)
                      ELSE job.table_name[1]                        \* 118-122
        read == ReadCsv(file, encodings)                            \* 125-140
        located == [base EXCEPT !.db_path = db_path,
                                !.table_name = table_name,
                                !.reads = read.reads,
                                !.permissive = read.permissive]
    IN
    IF ~read.ok
    THEN {[dbs |-> store, call |-> [located EXCEPT !.outcome = "ReadError"]]}
    ELSE
    LET columns == _make_unique_columns(
                       [i \in 1..Len(file.headers) |->
                           _clean_column_name(file.headers[i])])    \* 143-145
        db == store[db_path]                                        \* 158
        opened == [located EXCEPT !.connected = TRUE,
                                  !.columns = columns,
                                  !.existed = HasTable(db, table_name)]
    IN
    { IF ~w.ok
      THEN [dbs |-> [store EXCEPT ![db_path] = w.db],
            call |-> [opened EXCEPT !.outcome = "ToSqlError"]]
      ELSE LET index_columns ==
                   IF job.index_columns = None
                   THEN _suggest_index_columns(FrameOf(file, columns),
                            DefaultMaxUniqueRatio, DefaultMaxIndexes)
                   ELSE job.index_columns[1]                        \* 162-164
           IN  [dbs |-> [store EXCEPT ![db_path] =
                            CreateIndexes(w.db, table_name, columns,
                                          index_columns, 1)],
                call |-> [opened EXCEPT !.outcome = "ok",
                                        !.index_columns = index_columns]]
      : w \in ToSql(db, table_name, columns, file.rows, job.if_exists) }


----------------------------------------------------------------------------
(* Inputs of the pipeline *)

NameA == <<"a">>
ColC == <<"c">>
ColBC == <<"b","_","c">>
ColAbsent == <<"z","z","z">>

Job(p, d, t, ic, e, ie) ==
    [csv_path |-> p, db_path |-> d, table_name |-> t, index_columns |-> ic,
     encodings |-> e, if_exists |-> ie]

\* calls that vary the file and the encodings list
ReadJobs ==
    { Job(p, None, None, None, e, "replace") :
        p \in CsvPaths \ {"dup.csv"},
        e \in {None} \cup {Some(l) : l \in SeqsUpTo({"utf-8", "latin1"}, MaxEncodings)} }

\* calls that vary the table, the index columns and the if_exists policy,
\* all on the database main.db
StoreJobs ==
    { Job(p, Some("main.db"), t, ic, None, ie) :
        p \in {"a_b.csv", "a.csv", "dup.csv"},
        t \in {None, Some(NameA)},
        ic \in {None, Some(<<ColC>>), Some(<<ColBC, ColAbsent>>)},
        ie \in {"replace", "append", "fail"} }

JobPool == ReadJobs \cup StoreJobs

Entry(m, p, d, t, ic) ==
    [mapping |-> m, csv |-> p, db |-> d, table |-> t, index_columns |-> ic]

\* entries of config['databases']: a scalar, a mapping without 'csv', and
\* mappings naming a good file, a missing file, an unreadable file and a file
\* with clashing headers
EntryPool ==
    { Entry(FALSE, None, None, None, None),
      Entry(TRUE, None, Some("main.db"), Some(NameA), None),
      Entry(TRUE, Some("a_b.csv"), Some("main.db"), None, None),
      Entry(TRUE, Some("a.csv"), Some("main.db"), Some(NameA), Some(<<ColBC>>)),
      Entry(TRUE, Some("missing.csv"), Some("main.db"), None, None),
      Entry(TRUE, Some("bad.csv"), None, None, None),
      Entry(TRUE, Some("dup.csv"), Some("main.db"), Some(NameA), None) }

\* what yaml.safe_load returned
Configs ==
    {[kind |-> "no_databases_key", entries |-> <<>>],
     [kind |-> "not_a_list", entries |-> <<>>]}
    \cup {[kind |-> "list", entries |-> l] : l \in SeqsUpTo(EntryPool, MaxEntries)}

----------------------------------------------------------------------------
(* The runs: python db_generator.py --csv ... / --config ... *)

IngInit ==
    /\ SanIdle
    /\ AdvIdle
    /\ dbs = [d \in DbPaths |-> EmptyDb]
    /\ last = NoCall
    /\ njobs = 0
    /\ pc = "idle"
    /\ databases = <<>>
    /\ idx = 0
    /\ attempts = <<>>
    /\ outcomes = <<>>
    /\ success_count = 0
    /\ error_count = 0

\* lines 291-297, or any direct call of create_db_from_csv
RunCreateDb ==
    /\ pc \in {"idle", "single"}
    /\ njobs < MaxJobs
    /\ \E job \in JobPool : \E r \in create_db_from_csv(dbs, job) :
          /\ dbs' = r.dbs
          /\ last' = r.call
    /\ njobs' = njobs + 1
    /\ pc' = "single"
    /\ UNCHANGED <<databases, idx, attempts, outcomes, success_count, error_count>>
    /\ UNCHANGED <<sanVars, advVars>>

\* process_config_file, lines 209-220: load and validate the config
LoadConfig ==
    /\ pc = "idle"
    /\ \E cfg \in Configs :
          IF cfg.kind = "list"
          THEN /\ databases' = cfg.entries
               /\ pc' = "batch"
          ELSE /\ databases' = <<>>
               /\ pc' = "raised"
    /\ idx' = 0
    /\ success_count' = 0
    /\ error_count' = 0
    /\ UNCHANGED <<attempts, outcomes, storeVars, sanVars, advVars>>

\* the job of a config entry, lines 228-231 and 243-248
JobOfEntry(e) ==
    Job(e.csv[1], e.db, e.table, e.index_columns, None, "replace")

\* a variant that catches ValueError only
IsException_ValueErrorOnly(kind) == kind = "ValueError"

\* line 251, except Exception: the failures it catches
IsException(kind) ==
    kind \in {"AttributeError", "ValueError", "FileNotFoundError",
              "ReadError", "ToSqlError"}

\* lines 227-253, one pass of the loop body: the possible results, with the
\* exception caught by line 251 if there is one
EntryResults(store, e) ==
    IF ~e.mapping                                   \* db_config.get fails
    THEN {[dbs |-> store, calls |-> <<>>, outcome |-> "AttributeError"]}
    ELSE IF e.csv = None                            \* lines 233-234
    THEN {[dbs |-> store, calls |-> <<>>, outcome |-> "ValueError"]}
    ELSE {[dbs |-> r.dbs, calls |-> <<r.call>>, outcome |-> r.call.outcome]
          : r \in create_db_from_csv(store, JobOfEntry(e))}

\* lines 222-253: the loop body for entry idx + 1
ProcessEntry ==
    /\ pc = "batch"
    /\ idx < Len(databases)
    /\ \E r \in EntryResults(dbs, databases[idx + 1]) :
          /\ dbs' = r.dbs
          /\ last' = IF r.calls = <<>> THEN last ELSE r.calls[1]
          /\ njobs' = njobs + Len(r.calls)
          /\ outcomes' = Append(outcomes, r.outcome)
          /\ IF r.outcome # "ok" /\ ~IsException(r.outcome)
             THEN /\ pc' = "raised"
                  /\ UNCHANGED <<success_count, error_count>>
             ELSE /\ pc' = pc
                  /\ success_count' = success_count + (IF r.outcome = "ok" THEN 1 ELSE 0)
                  /\ error_count' = error_count + (IF r.outcome = "ok" THEN 0 ELSE 1)
    /\ idx' = idx + 1
    /\ attempts' = Append(attempts, idx + 1)
    /\ UNCHANGED <<databases, sanVars, advVars>>

\* lines 255-257: the summary, after the last entry
FinishBatch ==
    /\ pc = "batch"
    /\ idx = Len(databases)
    /\ pc' = "done"
    /\ UNCHANGED <<databases, idx, attempts, outcomes, success_count, error_count>>
    /\ UNCHANGED <<storeVars, sanVars, advVars>>

IngNext == RunCreateDb \/ LoadConfig \/ ProcessEntry \/ FinishBatch

SpecIngest == IngInit /\ [][IngNext]_vars

----------------------------------------------------------------------------
(* Properties of the sanitizer *)

\* [a-z0-9_]+ not starting with a digit
IsIdentChar(ch) == IsLowerAlnum(ch) \/ ch = "_"
ValidName(s) ==
    /\ s # <<>>
    /\ \A i \in 1..Len(s) : IsIdentChar(s[i])
    /\ ~IsDigit(s[1])

\* number of occurrences of cols[i] in cols[1..i]
Occurrence(cols, i) == Cardinality({j \in 1..i : cols[j] = cols[i]})

OrderIdHeaders ==
    << <<"O","r","d","e","r"," ","I","D">>,
       <<"O","r","d","e","r"," ","I","D">>,
       <<"2","0","2","0">> >>

OrderIdColumns ==
    << <<"o","r","d","e","r","_","i","d">>,
       <<"o","r","d","e","r","_","i","d","_","1">>,
       <<"c","_","2","0","2","0">> >>

\* C1: after _clean_column_name on every header and _make_unique_columns on
\* the result, no two names of the column list are equal.
C1_UniqueAfterTransformation ==
    stage = "unique" =>
        \A i, j \in 1..Len(final) : i # j => final[i] # final[j]

\* C2: every name of the column list, after cleaning and after the
\* uniqueness suffixing, is non-empty, made of [a-z0-9_] only and does not
\* start with a digit, whatever the raw header was.
C2_NamesAreValidIdentifiers ==
    stage \in {"cleaned", "unique"} =>
        /\ Len(final) = Len(raw)
        /\ \A i \in 1..Len(final) : ValidName(final[i])

C2_Witness ==
    /\ stage = "unique"
    /\ \E i \in 1..Len(raw) : raw[i] # <<>> /\ IsDigit(raw[i][1])
    /\ \E i \in 1..Len(raw) : raw[i] = <<>>
    /\ \E i \in 1..Len(final) : final[i] # cleaned[i]

\* C3: cleaning an already cleaned name returns it unchanged.
C3_CleanIsIdempotent ==
    stage = "recleaned" => final = cleaned

C3_Witness ==
    /\ stage = "recleaned"
    /\ \E i \in 1..Len(raw) :
           raw[i] # cleaned[i] /\ cleaned[i] \in {<<"c","_","1">>, <<"c","o","l">>}

\* C4: the first occurrence of a name is kept, the k-th occurrence (k >= 2)
\* becomes name_<k-1>, the length and the other positions are preserved;
\* ["Order ID", "Order ID", "2020"] becomes
\* ["order_id", "order_id_1", "c_2020"].
C4_SuffixByOccurrence ==
    stage = "unique" =>
        /\ Len(final) = Len(cleaned)
        /\ \A i \in 1..Len(cleaned) :
               LET k == Occurrence(cleaned, i) IN
               final[i] = IF k = 1 THEN cleaned[i]
                          ELSE cleaned[i] \o <<"_">> \o DecStr(k - 1)
        /\ raw = OrderIdHeaders => final = OrderIdColumns

C4_Witness ==
    /\ stage = "unique"
    /\ raw = OrderIdHeaders
    /\ final[2] # cleaned[2]

----------------------------------------------------------------------------
(* Properties of the index advisor *)

FracEq(a, b) == a[1] * b[2] = b[1] * a[2]

\* position of the column called name in the table
PosOf(name) == CHOOSE i \in 1..Len(df.columns) : df.columns[i].name = name

RatioOf(name) == ColumnRatio(df.columns[PosOf(name)], df.nrows)

\* the score as the specification states it
StatedScore(name) ==
    LET lname == Lower(name)
        ratio == RatioOf(name)
    IN    (IF Contains(lname, <<"i","d">>) /\ Len(lname) <= 10 THEN 4 ELSE 0)
        + (IF \E k \in DateKeywords : Contains(lname, k) THEN 3 ELSE 0)
        + (IF \E k \in RegionKeywords : Contains(lname, k) THEN 2 ELSE 0)
        + (IF FracLess(ratio, max_unique_ratio) THEN 2
           ELSE IF FracLess(ratio, FracTwice(max_unique_ratio)) THEN 1 ELSE 0)

\* a ranks strictly before b: higher score, then lower ratio, then earlier
\* column
RanksBefore(a, b) ==
    \/ StatedScore(a) > StatedScore(b)
    \/ /\ StatedScore(a) = StatedScore(b)
       /\ \/ FracLess(RatioOf(a), RatioOf(b))
          \/ FracEq(RatioOf(a), RatioOf(b)) /\ PosOf(a) < PosOf(b)

TiedOnScoreAndRatio(a, b) ==
    /\ StatedScore(a) = StatedScore(b)
    /\ FracEq(RatioOf(a), RatioOf(b))

ColumnNames == {df.columns[i].name : i \in 1..Len(df.columns)}

RegionName == <<"r","e","g","i","o","n">>
ValueName == <<"v","a","l","u","e">>

\* C5: the advisor never returns more than max_indexes columns and never
\* returns a column whose score is zero.
C5_AtMostMaxIndexesNoZeroScore ==
    advStage = "returned" =>
        /\ Len(suggested) <= max_indexes
        /\ \A i \in 1..Len(suggested) : StatedScore(suggested[i]) > 0

\* C5 as amended: for max_indexes >= 0 the advisor returns at most
\* max_indexes columns, and for every max_indexes it returns no column whose
\* score is zero.
C5_AtMostNonNegativeMaxIndexes ==
    advStage = "returned" =>
        /\ max_indexes >= 0 => Len(suggested) <= max_indexes
        /\ \A i \in 1..Len(suggested) : StatedScore(suggested[i]) > 0

C5_Witness ==
    /\ advStage = "returned"
    /\ max_indexes = 1
    /\ Len(suggested) = 1
    /\ Cardinality({c \in ColumnNames : StatedScore(c) > 0}) = 2
    /\ \E c \in ColumnNames : StatedScore(c) = 0

\* C6: the returned list is ordered by score descending, then ratio
\* ascending, then original column order, with the score being the stated
\* sum; the columns left out rank after the returned ones; 'region' with
\* ratio 0.01 ranks above 'value' with ratio 0.9.
C6_OrderedByScoreRatioPosition ==
    advStage = "returned" =>
        /\ \A i \in 1..Len(suggested) :
               suggested[i] \in ColumnNames /\ StatedScore(suggested[i]) > 0
        /\ \A i, j \in 1..Len(suggested) :
               i < j => RanksBefore(suggested[i], suggested[j])
        /\ \A c \in ColumnNames \ Range(suggested) :
               StatedScore(c) > 0 =>
                   \A i \in 1..Len(suggested) : RanksBefore(suggested[i], c)
        /\ ( /\ {RegionName, ValueName} \subseteq ColumnNames
             /\ RatioOf(RegionName) = <<1, 100>>
             /\ RatioOf(ValueName) = <<90, 100>> )
           => /\ RanksBefore(RegionName, ValueName)
              /\ ValueName \in Range(suggested) => RegionName \in Range(suggested)

C6_Witness ==
    /\ advStage = "returned"
    /\ Len(suggested) = 3
    /\ TiedOnScoreAndRatio(suggested[1], suggested[2])
    /\ StatedScore(suggested[2]) = StatedScore(suggested[3])
    /\ FracLess(RatioOf(suggested[2]), RatioOf(suggested[3]))
    /\ PosOf(suggested[3]) = 1

----------------------------------------------------------------------------
(* Properties of the pipeline and of the batch runner *)

EntryFile(e) == Files[e.csv[1]]
EntryDb(e) == IF e.db = None THEN EntryFile(e).beside ELSE e.db[1]
EntryTable(e) ==
    IF e.table = None THEN DefaultTableName(EntryFile(e).stem) ELSE e.table[1]

\* not a mapping, no 'csv' field, a missing file or an unreadable file
Malformed(e) ==
    \/ ~e.mapping
    \/ e.csv = None
    \/ ~EntryFile(e).exists
    \/ EntryFile(e).decodes = {} /\ ~EntryFile(e).permissive

\* a mapping naming a readable file whose sanitized column names are distinct
Valid(e) ==
    /\ ~Malformed(e)
    /\ IsInjective(_make_unique_columns(
           [i \in 1..Len(EntryFile(e).headers) |->
               _clean_column_name(EntryFile(e).headers[i])]))

CountOk(s) == Cardinality({i \in 1..Len(s) : s[i] = "ok"})

\* C7: every entry of the batch is attempted in list order whatever happened
\* to the earlier ones, no failing entry raises to the caller, the two
\* counters add up to the number of entries with success_count the number of
\* completed jobs; one malformed and one valid entry give one success, one
\* failure, and the valid job's table exists.
C7_BatchIsolatesFailures ==
    /\ pc \in {"batch", "done"} =>
          /\ attempts = [i \in 1..idx |-> i]
          /\ Len(outcomes) = idx
          /\ success_count + error_count = idx
          /\ success_count = CountOk(outcomes)
    /\ pc = "done" => idx = Len(databases)
    /\ pc = "raised" => attempts = <<>>
    /\ ( /\ pc = "done"
         /\ Len(databases) = 2
         /\ \E i, j \in 1..2 : Malformed(databases[i]) /\ Valid(databases[j]) )
       => /\ success_count = 1
          /\ error_count = 1
          /\ \E j \in 1..2 :
                /\ Valid(databases[j])
                /\ HasTable(dbs[EntryDb(databases[j])], EntryTable(databases[j]))

C7_Witness ==
    /\ pc = "done"
    /\ Len(databases) = 2
    /\ Malformed(databases[1])
    /\ Valid(databases[2])
    /\ outcomes = <<"FileNotFoundError", "ok">>

\* C8: a successful run with if_exists='replace' leaves in its table exactly
\* the rows of that run, and leaves every other table as it was.
C8_ReplaceKeepsOnlyLatestRows ==
    [][ ( /\ njobs' = njobs + 1
          /\ last'.outcome = "ok"
          /\ last'.if_exists = "replace" )
        => /\ HasTable(dbs'[last'.db_path], last'.table_name)
           /\ TableOf(dbs'[last'.db_path], last'.table_name).rows
                  = Files[last'.csv_path].rows
           /\ \A d \in DbPaths :
                 {x \in dbs[d].tables : d # last'.db_path \/ x.name # last'.table_name}
                 = {x \in dbs'[d].tables : d # last'.db_path \/ x.name # last'.table_name}
      ]_vars

C8_Witness ==
    /\ njobs >= 2
    /\ last.outcome = "ok"
    /\ last.if_exists = "replace"
    /\ last.existed
    /\ TableOf(dbs[last.db_path], last.table_name).rows = Files[last.csv_path].rows
    /\ \E x \in dbs[last.db_path].tables : x.name # last.table_name

IsPrefix(s, t) == Len(s) <= Len(t) /\ \A i \in 1..Len(s) : s[i] = t[i]

\* what C9 says of one call
ReadDiscipline(call) ==
    LET f == Files[call.csv_path]
        n == Len(call.reads)
    IN  /\ call.outcome = "FileNotFoundError" <=> ~f.exists
        /\ ~f.exists => call.reads = <<>> /\ ~call.permissive /\ ~call.connected
        /\ f.exists =>
              /\ IsPrefix(call.reads, call.encodings)
              /\ \A i \in 1..(n - 1) : call.reads[i] \notin f.decodes
              /\ n < Len(call.encodings) => n > 0 /\ call.reads[n] \in f.decodes
              /\ call.permissive <=>
                     \A i \in 1..Len(call.encodings) : call.encodings[i] \notin f.decodes
              /\ call.outcome = "ReadError" <=> call.permissive /\ ~f.permissive
              /\ call.outcome = "ReadError" => ~call.connected

\* C9: the encodings are tried in list order up to the first success, the
\* permissive read is made exactly when every listed encoding failed, the
\* call fails with a read error exactly when the permissive read fails too,
\* then without a connection and without a change to any database; a missing
\* file fails the call before any read.
C9_EncodingFallbackOrder ==
    /\ [](last.outcome # "none" => ReadDiscipline(last))
    /\ [][ ( /\ njobs' = njobs + 1
             /\ last'.outcome \in {"ReadError", "FileNotFoundError"} )
           => dbs' = dbs ]_vars

C9_Witness ==
    /\ last.csv_path = "a.csv"
    /\ last.encodings = DefaultEncodings
    /\ last.reads = <<"utf-8", "latin1">>
    /\ ~last.permissive
    /\ last.outcome = "ok"

\* C10: after a successful job every column of its index list that is in the
\* schema has the index idx_<table>_<column> on that column of that table,
\* and a column that is not in the schema has no index.
C10_EveryRequestedColumnIndexed ==
    last.outcome = "ok" =>
        \A i \in 1..Len(last.index_columns) :
            LET col == last.index_columns[i] IN
            IF col \in Range(last.columns)
            THEN [name |-> IndexName(last.table_name, col),
                  table |-> last.table_name,
                  column |-> col] \in dbs[last.db_path].indexes
            ELSE ~\E x \in dbs[last.db_path].indexes :
                     x.table = last.table_name /\ x.column = col

====
